---- MODULE Spec2Model ----
(***************************************************************************)
(* Dialogue state machine of the paperclips scene (src/src/main.rs):       *)
(* the GameState machine, the ActiveDialogue entity, the dialogue UI, the  *)
(* look input with its stored copy, the cursor grab and the keyboard, run  *)
(* by the frame loop PreUpdate -> StateTransition -> Update.               *)
(*                                                                         *)
(* Units: angles are in tenths of a degree, mouse deltas in pixels,        *)
(* distances in tenths of a unit, dot products in hundredths.              *)
(***************************************************************************)
EXTENDS Integers, Sequences, FiniteSets, TLC

VARIABLES
  pc,               \* schedule the frame loop runs next
  state,            \* State<GameState>
  next_state,       \* NextState<GameState>: "Unchanged" or the pending state
  active_dialogue,  \* the ActiveDialogue entities
  dialogue_ui,      \* the DialogueUI root entities with their option buttons
  pressed,          \* buttons whose Interaction changed to Pressed this frame
  look,             \* LookInput
  stored_camera,    \* StoredCameraState.look_rotation
  window,           \* Window.cursor_options
  keyboard,         \* ButtonInput<KeyCode>
  app_exit,         \* an AppExit event was sent (or the app panicked)
  ran,              \* systems the last Update schedule ran
  exit_look,        \* history: LookInput as OnExit(InDialogue) found it, when
                    \* the last step ran that schedule
  content,          \* the static content the DialogueDatabase was built from
  npc_query,        \* the NPCs near the player in the order player_interaction
                    \* iterates them, where the specification tracks them
  movement,         \* MovementInput, each component up to normalisation:
                    \* -1, 0, 1 for negative, zero, positive
  camera,           \* the rotation player_look gave the player and the camera,
                    \* where the specification tracks it
  cancelled         \* history: the number of buttons pressed in the frame, when
                    \* the last Update took the Escape branch of
                    \* handle_dialogue_click

vars == <<pc, state, next_state, active_dialogue, dialogue_ui, pressed, look,
          stored_camera, window, keyboard, app_exit, ran, exit_look, content,
          npc_query, movement, camera, cancelled>>

(***************************************************************************)
(* Constants of the program                                                *)
(***************************************************************************)
MOUSE_SENSITIVITY == 3
PITCH_LIMIT == 899
NPC_COUNT == 12
INTERACTION_DISTANCE == 50
FORWARD_DOT_MIN == 70
F32_MAX == 2147483647

(***************************************************************************)
(* Bounds of the model                                                     *)
(***************************************************************************)
MaxMouseEvents == 1
MaxYaw == 1200

MouseDeltas == {<<400, 400>>, <<-400, -400>>}
ForwardDots == {70, 80}
Distances == {30, 45, 50, 60}
Keys == {"KeyE", "Escape"}
MovementKeys == {"KeyW", "Space"}
\* How often the fixed main loop runs FixedUpdate in a frame: not at all, or
\* once (a further run finds the MovementInput the first one cleared)
FixedSteps == {0, 1}
\* The NPCs the player comes near to: one of each dialogue type, and a second
\* NPC of the "basic" type
NearbyNpcs == {0, 1, 2, 3, 4, 5}

(***************************************************************************)
(* DialogueDatabase::default                                               *)
(***************************************************************************)
Reply(target) == [kind |-> "Reply", target_node |-> target]
Exit == [kind |-> "Exit", target_node |-> ""]

\* The basic tree with the two Reply options of "start" in the other order
BasicTreeSwapped ==
  [ root_node |-> "start",
    nodes |-> [ start |-> <<Reply("place"), Reply("who"), Exit>>,
                who |-> <<Reply("place"), Reply("start"), Exit>>,
                place |-> <<Reply("who"), Reply("start"), Exit>> ] ]

BasicTree ==
  [ root_node |-> "start",
    nodes |-> [ start |-> <<Reply("who"), Reply("place"), Exit>>,
                who |-> <<Reply("place"), Reply("start"), Exit>>,
                place |-> <<Reply("who"), Reply("start"), Exit>> ] ]

\* The guard tree with the Reply of "careful" pointing at a misspelt node-id
GuardTreeDanglingTarget ==
  [ root_node |-> "start",
    nodes |-> [ start |-> <<Reply("exploring"), Reply("guard_who"), Exit>>,
                exploring |-> <<Reply("trouble"), Exit>>,
                guard_who |-> <<Reply("guarding"), Reply("start"), Exit>>,
                trouble |-> <<Reply("careful"), Exit>>,
                careful |-> <<Reply("guard_whom"), Exit>>,
                guarding |-> <<Reply("start"), Exit>> ] ]

GuardTree ==
  [ root_node |-> "start",
    nodes |-> [ start |-> <<Reply("exploring"), Reply("guard_who"), Exit>>,
                exploring |-> <<Reply("trouble"), Exit>>,
                guard_who |-> <<Reply("guarding"), Reply("start"), Exit>>,
                trouble |-> <<Reply("careful"), Exit>>,
                careful |-> <<Reply("guard_who"), Exit>>,
                guarding |-> <<Reply("start"), Exit>> ] ]

\* MerchantTree with a Reply whose target is named as the Exit button target
MerchantTreeExitReply ==
  [ root_node |-> "start",
    nodes |-> [ start |-> <<Reply("wares"), Reply("business"), Exit>>,
                wares |-> <<Reply("business"), Reply("exit"), Exit>>,
                business |-> <<Reply("wares"), Reply("start"), Exit>> ] ]

MerchantTree ==
  [ root_node |-> "start",
    nodes |-> [ start |-> <<Reply("wares"), Reply("business"), Exit>>,
                wares |-> <<Reply("business"), Reply("start"), Exit>>,
                business |-> <<Reply("wares"), Reply("start"), Exit>> ] ]

\* ScientistTree in which no Reply leads to "institute"
ScientistTreeOrphanNode ==
  [ root_node |-> "start",
    nodes |-> [ start |-> <<Reply("research"), Reply("who"), Exit>>,
                research |-> <<Reply("complex"), Reply("who"), Exit>>,
                complex |-> <<Reply("applications"), Reply("start"), Exit>>,
                applications |-> <<Reply("research"), Exit>>,
                who |-> <<Reply("research"), Reply("start"), Exit>>,
                institute |-> <<Reply("research"), Reply("start"), Exit>> ] ]

ScientistTree ==
  [ root_node |-> "start",
    nodes |-> [ start |-> <<Reply("research"), Reply("who"), Exit>>,
                research |-> <<Reply("complex"), Reply("who"), Exit>>,
                complex |-> <<Reply("applications"), Reply("start"), Exit>>,
                applications |-> <<Reply("research"), Exit>>,
                who |-> <<Reply("research"), Reply("institute"), Exit>>,
                institute |-> <<Reply("research"), Reply("start"), Exit>> ] ]

\* The mysterious tree with the Exit option of "real" left out
MysteriousTreeNoExit ==
  [ root_node |-> "start",
    nodes |-> [ start |-> <<Reply("hello"), Reply("who"), Exit>>,
                hello |-> <<Reply("where"), Reply("who"), Exit>>,
                who |-> <<Reply("observing"), Reply("where"), Exit>>,
                where |-> <<Reply("meaning"), Reply("who"), Exit>>,
                observing |-> <<Reply("game"), Reply("start"), Exit>>,
                meaning |-> <<Reply("player"), Reply("start"), Exit>>,
                game |-> <<Reply("sense"), Reply("start"), Exit>>,
                player |-> <<Reply("impossible"), Reply("start"), Exit>>,
                sense |-> <<Reply("real"), Reply("start"), Exit>>,
                impossible |-> <<Reply("wrote"), Reply("start"), Exit>>,
                real |-> <<Reply("part")>>,
                wrote |-> <<Exit>>,
                part |-> <<Exit>> ] ]

MysteriousTree ==
  [ root_node |-> "start",
    nodes |-> [ start |-> <<Reply("hello"), Reply("who"), Exit>>,
                hello |-> <<Reply("where"), Reply("who"), Exit>>,
                who |-> <<Reply("observing"), Reply("where"), Exit>>,
                where |-> <<Reply("meaning"), Reply("who"), Exit>>,
                observing |-> <<Reply("game"), Reply("start"), Exit>>,
                meaning |-> <<Reply("player"), Reply("start"), Exit>>,
                game |-> <<Reply("sense"), Reply("start"), Exit>>,
                player |-> <<Reply("impossible"), Reply("start"), Exit>>,
                sense |-> <<Reply("real"), Reply("start"), Exit>>,
                impossible |-> <<Reply("wrote"), Reply("start"), Exit>>,
                real |-> <<Reply("part"), Exit>>,
                wrote |-> <<Exit>>,
                part |-> <<Exit>> ] ]

DefaultDialogueDatabase ==
  [ basic |-> BasicTree, guard |-> GuardTree, merchant |-> MerchantTree,
    scientist |-> ScientistTree, mysterious |-> MysteriousTree ]

\* The shipped database with one Reply target changed to a node-id that the
\* tree does not contain: the corrupted static content of the error policy.
CorruptedDialogueDatabase ==
  [DefaultDialogueDatabase EXCEPT
     !.basic.nodes.who = <<Reply("lost"), Reply("start"), Exit>>]

\* The shipped database without the "guard" tree: static content in which the
\* dialogue_id of an NPC is not a key of the database.
IncompleteDialogueDatabase ==
  [id \in (DOMAIN DefaultDialogueDatabase) \ {"guard"} |-> DefaultDialogueDatabase[id]]

\* The DialogueDatabase resource, initialised once and never written
dialogue_db ==
  CASE content = "shipped" -> DefaultDialogueDatabase
    [] content = "corrupted" -> CorruptedDialogueDatabase
    [] content = "incomplete" -> IncompleteDialogueDatabase

(***************************************************************************)
(* spawn_npcs: the dialogue_id of each of the NPC_COUNT NPCs               *)
(***************************************************************************)
\* dialogue_types with an id that is no key of the DialogueDatabase
dialogue_types_unknown_id == <<"basic", "guard", "merchant", "scientist", "unknown">>
dialogue_types == <<"basic", "guard", "merchant", "scientist", "mysterious">>
Npcs == 0..(NPC_COUNT - 1)
NpcDialogueId(i) == dialogue_types[(i % Len(dialogue_types)) + 1]
NoNpc == -1

(***************************************************************************)
(* Queries, entities and deferred commands                                 *)
(***************************************************************************)
GetSingleOk(q) == Cardinality(q) = 1
Single(q) == CHOOSE x \in q : TRUE

Abs(x) == IF x < 0 THEN -x ELSE x
Clamp(x, lo, hi) == IF x < lo THEN lo ELSE IF x > hi THEN hi ELSE x

RECURSIVE SetToSeq(_)
SetToSeq(S) ==
  IF S = {} THEN <<>>
  ELSE LET x == CHOOSE y \in S : TRUE IN <<x>> \o SetToSeq(S \ {x})

\* Commands::spawn reserves the id of the new entity when the command is
\* queued, while every entity the schedule started with is still alive: the
\* new id differs from those (w.reserved) and from the ids spawned since.
EntitiesOf(w) == {a.entity : a \in w.ad} \cup {u.entity : u \in w.ui} \cup w.reserved
FreeEntity(w) ==
  CHOOSE e \in 1..(Cardinality(EntitiesOf(w)) + 1) :
    /\ e \notin EntitiesOf(w)
    /\ \A f \in 1..(e - 1) : f \in EntitiesOf(w)

Cmd(c, e, n, node, b) ==
  [cmd |-> c, entity |-> e, npc_entity |-> n, current_node |-> node, buttons |-> b]
SpawnActiveDialogue(n, node) == Cmd("spawn_active_dialogue", 0, n, node, <<>>)
InsertActiveDialogue(e, n, node) == Cmd("insert_active_dialogue", e, n, node, <<>>)
Despawn(e) == Cmd("despawn", e, NoNpc, "", <<>>)
SpawnDialogueUI(b) == Cmd("spawn_dialogue_ui", 0, NoNpc, "", b)

ApplyCommand(c, w) ==
  CASE c.cmd = "spawn_active_dialogue" ->
         [w EXCEPT !.ad = @ \cup {[entity |-> FreeEntity(w), npc_entity |-> c.npc_entity,
                                   current_node |-> c.current_node]}]
    [] c.cmd = "insert_active_dialogue" ->
         IF \E a \in w.ad : a.entity = c.entity
         THEN [w EXCEPT !.ad = {a \in @ : a.entity # c.entity} \cup
                                {[entity |-> c.entity, npc_entity |-> c.npc_entity,
                                  current_node |-> c.current_node]}]
         ELSE [w EXCEPT !.panic = TRUE]
    [] c.cmd = "despawn" ->
         [w EXCEPT !.ad = {a \in @ : a.entity # c.entity},
                   !.ui = {u \in @ : u.entity # c.entity}]
    [] c.cmd = "spawn_dialogue_ui" ->
         [w EXCEPT !.ui = @ \cup {[entity |-> FreeEntity(w), buttons |-> c.buttons]}]

RECURSIVE ApplyCommands(_, _)
ApplyCommands(cmds, w) ==
  IF cmds = <<>> \/ w.panic THEN w
  ELSE ApplyCommands(Tail(cmds), ApplyCommand(Head(cmds), w))

World ==
  [ad |-> active_dialogue, ui |-> dialogue_ui, panic |-> FALSE,
   reserved |-> {a.entity : a \in active_dialogue} \cup {u.entity : u \in dialogue_ui}]
Nothing == [commands |-> <<>>, next_state |-> "Unchanged"]

(***************************************************************************)
(* The option buttons spawned for a node                                    *)
(***************************************************************************)
OptionButtons(options) ==
  [i \in 1..Len(options) |->
     [target_node |-> IF options[i].kind = "Reply" THEN options[i].target_node ELSE "exit",
      option_index |-> i - 1]]

(***************************************************************************)
(* PreUpdate: keyboard_input_system, ui_focus_system, handle_input         *)
(***************************************************************************)
\* keyboard_input_system with at most one press or release of a key per frame:
\* a key is just_pressed when it was pressed this frame and is held when it
\* was pressed before and not released.
KeyboardUpdatesOver(keys, kb) ==
  {k \in [pressed : SUBSET keys, just_pressed : SUBSET keys] :
     /\ k.just_pressed \subseteq k.pressed
     /\ k.just_pressed \cap kb.pressed = {}
     /\ (k.pressed \ k.just_pressed) \subseteq kb.pressed}

KeyboardUpdates(kb) == KeyboardUpdatesOver(Keys, kb)

FocusOutcomes ==
  {<<>>} \cup
  UNION {{<<[ui |-> u.entity, target_node |-> u.buttons[i].target_node,
             option_index |-> u.buttons[i].option_index]>> :
            i \in 1..Len(u.buttons)} : u \in dialogue_ui}

MouseEventSeqs == UNION {[1..n -> MouseDeltas] : n \in 0..MaxMouseEvents}

\* handle_input, the mouse loop without the pitch clamp
RECURSIVE handle_input_unclamped(_, _)
handle_input_unclamped(l, events) ==
  IF events = <<>> THEN l
  ELSE LET delta == Head(events)
           x == l.x - delta[1] * MOUSE_SENSITIVITY
           y == l.y - delta[2] * MOUSE_SENSITIVITY
       IN handle_input_unclamped([x |-> x, y |-> y], Tail(events))

RECURSIVE handle_input(_, _)
handle_input(l, events) ==
  IF events = <<>> THEN l
  ELSE LET delta == Head(events)
           x == l.x - delta[1] * MOUSE_SENSITIVITY
           y == l.y - delta[2] * MOUSE_SENSITIVITY
       IN handle_input([x |-> x, y |-> Clamp(y, -PITCH_LIMIT, PITCH_LIMIT)], Tail(events))

\* handle_input, the keys: KeyW pulls z below what it was, the vector is
\* normalised (the signs of its components stay), Space sets y to 1.
Sign(x) == IF x < 0 THEN -1 ELSE IF x > 0 THEN 1 ELSE 0
handle_input_movement(m, kb) ==
  [x |-> Sign(m.x),
   y |-> IF "Space" \in kb.pressed THEN 1 ELSE Sign(m.y),
   z |-> Sign(IF "KeyW" \in kb.pressed THEN m.z - 1 ELSE m.z)]

\* The PreUpdate schedule of a frame whose input events are drawn from the
\* given keyboard states, pressed buttons and mouse motion
PreUpdateWith(keyboards, focus, mouse) ==
  /\ pc = "PreUpdate"
  /\ ~app_exit
  /\ pc' = "StateTransition"
  /\ keyboard' \in keyboards
  /\ pressed' \in focus
  /\ \E events \in mouse :
       /\ look' = handle_input(look, events)
       /\ Abs(look'.x) <= MaxYaw
  /\ movement' = handle_input_movement(movement, keyboard')
  /\ exit_look' = {}
  /\ UNCHANGED <<state, next_state, active_dialogue, dialogue_ui, stored_camera,
                 window, app_exit, ran, content, npc_query, camera, cancelled>>

PreUpdate == PreUpdateWith(KeyboardUpdates(keyboard), FocusOutcomes, MouseEventSeqs)

\* A frame without input events: held keys stay held, nothing is just pressed
PreUpdateNoInput ==
  PreUpdateWith({[pressed |-> keyboard.pressed, just_pressed |-> {}]}, {<<>>}, {<<>>})

\* handle_dialogue_click iterates every button whose Interaction changed to
\* Pressed: frames in which the query yields up to two buttons, in either order
MultiFocusOutcomes ==
  FocusOutcomes \cup
  ({a \o b : a \in FocusOutcomes \ {<<>>}, b \in FocusOutcomes \ {<<>>}} \
     {a \o a : a \in FocusOutcomes})

PreUpdateMultiPress ==
  PreUpdateWith(KeyboardUpdates(keyboard), MultiFocusOutcomes, {<<>>})

(***************************************************************************)
(* StateTransition: OnEnter(InDialogue) and OnExit(InDialogue)             *)
(***************************************************************************)
\* setup_dialogue_ui without the cursor release
setup_dialogue_ui_keep_cursor ==
  /\ stored_camera' = [x |-> look.x, y |-> look.y]
  /\ window' = window
  /\ LET found ==
           /\ GetSingleOk(active_dialogue)
           /\ Single(active_dialogue).npc_entity \in Npcs
           /\ NpcDialogueId(Single(active_dialogue).npc_entity) \in DOMAIN dialogue_db
           /\ Single(active_dialogue).current_node \in
                DOMAIN dialogue_db[NpcDialogueId(Single(active_dialogue).npc_entity)].nodes
         node == dialogue_db[NpcDialogueId(Single(active_dialogue).npc_entity)]
                   .nodes[Single(active_dialogue).current_node]
         w == IF found
              THEN ApplyCommands(<<SpawnDialogueUI(OptionButtons(node))>>, World)
              ELSE World
     IN /\ dialogue_ui' = w.ui
        /\ active_dialogue' = w.ad
  /\ UNCHANGED <<look, pressed>>

setup_dialogue_ui ==
  /\ stored_camera' = [x |-> look.x, y |-> look.y]
  /\ window' = [visible |-> TRUE, grab_mode |-> "None"]
  /\ LET found ==
           /\ GetSingleOk(active_dialogue)
           /\ Single(active_dialogue).npc_entity \in Npcs
           /\ NpcDialogueId(Single(active_dialogue).npc_entity) \in DOMAIN dialogue_db
           /\ Single(active_dialogue).current_node \in
                DOMAIN dialogue_db[NpcDialogueId(Single(active_dialogue).npc_entity)].nodes
         node == dialogue_db[NpcDialogueId(Single(active_dialogue).npc_entity)]
                   .nodes[Single(active_dialogue).current_node]
         w == IF found
              THEN ApplyCommands(<<SpawnDialogueUI(OptionButtons(node))>>, World)
              ELSE World
     IN /\ dialogue_ui' = w.ui
        /\ active_dialogue' = w.ad
  /\ UNCHANGED <<look, pressed>>

cleanup_dialogue_ui ==
  LET w == ApplyCommands([i \in 1..Cardinality(dialogue_ui) |->
                            Despawn(SetToSeq(dialogue_ui)[i].entity)], World)
  IN /\ dialogue_ui' = w.ui
     /\ active_dialogue' = w.ad
     /\ pressed' = SelectSeq(pressed, LAMBDA b : \E u \in w.ui : u.entity = b.ui)

\* reset_look_input restoring the yaw and leaving the pitch as it is
reset_look_input_yaw_only ==
  look' = [x |-> stored_camera.x, y |-> look.y]

reset_look_input ==
  look' = [x |-> stored_camera.x, y |-> stored_camera.y]

StateTransition ==
  /\ pc = "StateTransition"
  /\ ~app_exit
  /\ pc' = "Update"
  /\ next_state' = "Unchanged"
  /\ IF next_state = "Unchanged" \/ next_state = state
     THEN /\ exit_look' = {}
          /\ UNCHANGED <<state, active_dialogue, dialogue_ui, pressed, look,
                         stored_camera, window>>
     ELSE /\ state' = next_state
          /\ IF state = "InDialogue"
             THEN /\ cleanup_dialogue_ui
                  /\ reset_look_input
                  /\ exit_look' = {look}
                  /\ UNCHANGED <<stored_camera, window>>
             ELSE /\ setup_dialogue_ui
                  /\ exit_look' = {}
  /\ UNCHANGED <<keyboard, app_exit, ran, content, npc_query, movement, camera,
                 cancelled>>

(***************************************************************************)
(* FixedUpdate and Update: the systems gated by in_state                   *)
(***************************************************************************)
in_state(s) == state = s

PlayerMovementRunIf == in_state("Playing")

\* player_movement: reads the MovementInput and clears it
player_movement == [x |-> 0, y |-> 0, z |-> 0]

\* player_look: the yaw of LookInput to the player, its pitch to the camera
player_look ==
  IF camera.tracked THEN [tracked |-> TRUE, rotation |-> [x |-> look.x, y |-> look.y]]
  ELSE camera

\* the Update systems of the world added without their run condition
PlayingSystemsRunIfAlways == TRUE
PlayingSystemsRunIf == in_state("Playing")
\* player_interaction added without its run condition
PlayerInteractionRunIfAlways == TRUE
PlayerInteractionRunIf == in_state("Playing")
DialogueSystemsRunIf == in_state("InDialogue")

\* toggle_cursor_grab locking the cursor on every Escape press, never exiting
toggle_cursor_grab_relock_only ==
  IF state # "Playing" THEN [window |-> window, exit |-> FALSE]
  ELSE IF "Escape" \in keyboard.just_pressed
       THEN [window |-> [visible |-> FALSE, grab_mode |-> "Locked"], exit |-> FALSE]
       ELSE [window |-> window, exit |-> FALSE]

\* toggle_cursor_grab reading whether Escape is held instead of just pressed
toggle_cursor_grab_while_held ==
  IF state # "Playing" THEN [window |-> window, exit |-> FALSE]
  ELSE IF "Escape" \in keyboard.pressed
       THEN IF window.grab_mode = "Locked"
            THEN [window |-> window, exit |-> TRUE]
            ELSE [window |-> [visible |-> FALSE, grab_mode |-> "Locked"],
                  exit |-> FALSE]
       ELSE [window |-> window, exit |-> FALSE]

toggle_cursor_grab ==
  IF state # "Playing" THEN [window |-> window, exit |-> FALSE]
  ELSE IF "Escape" \in keyboard.just_pressed
       THEN IF window.grab_mode = "Locked"
            THEN [window |-> window, exit |-> TRUE]
            ELSE [window |-> [visible |-> FALSE, grab_mode |-> "Locked"], exit |-> FALSE]
       ELSE [window |-> window, exit |-> FALSE]

\* The loop without the test against INTERACTION_DISTANCE
RECURSIVE ClosestNpcNoRadius(_, _, _)
ClosestNpcNoRadius(npcs, closest_npc, closest_distance) ==
  IF npcs = <<>> THEN closest_npc
  ELSE LET npc == Head(npcs) IN
       IF /\ npc.forward_dot > FORWARD_DOT_MIN
          /\ npc.distance < closest_distance
       THEN ClosestNpcNoRadius(Tail(npcs), npc.entity, npc.distance)
       ELSE ClosestNpcNoRadius(Tail(npcs), closest_npc, closest_distance)

\* The loop without the test of the forward cone
RECURSIVE ClosestNpcNoCone(_, _, _)
ClosestNpcNoCone(npcs, closest_npc, closest_distance) ==
  IF npcs = <<>> THEN closest_npc
  ELSE LET npc == Head(npcs) IN
       IF /\ npc.distance < INTERACTION_DISTANCE
          /\ npc.distance < closest_distance
       THEN ClosestNpcNoCone(Tail(npcs), npc.entity, npc.distance)
       ELSE ClosestNpcNoCone(Tail(npcs), closest_npc, closest_distance)

\* The loop taking every NPC in the cone and in range, whatever the distance
\* of the one it took before
RECURSIVE ClosestNpcLastInRange(_, _, _)
ClosestNpcLastInRange(npcs, closest_npc, closest_distance) ==
  IF npcs = <<>> THEN closest_npc
  ELSE LET npc == Head(npcs) IN
       IF /\ npc.forward_dot > FORWARD_DOT_MIN
          /\ npc.distance < INTERACTION_DISTANCE
       THEN ClosestNpcLastInRange(Tail(npcs), npc.entity, npc.distance)
       ELSE ClosestNpcLastInRange(Tail(npcs), closest_npc, closest_distance)

\* player_interaction, the loop over npc_query: npcs is the iteration, each
\* element an NPC with the dot product and the distance computed for it.
RECURSIVE ClosestNpc(_, _, _)
ClosestNpc(npcs, closest_npc, closest_distance) ==
  IF npcs = <<>> THEN closest_npc
  ELSE LET npc == Head(npcs) IN
       IF /\ npc.forward_dot > FORWARD_DOT_MIN
          /\ npc.distance < INTERACTION_DISTANCE
          /\ npc.distance < closest_distance
       THEN ClosestNpc(Tail(npcs), npc.entity, npc.distance)
       ELSE ClosestNpc(Tail(npcs), closest_npc, closest_distance)

\* The NPCs near the player, in iteration order; every other NPC is behind
\* the player or far away and is rejected by the loop.
NpcSamples == [entity : NearbyNpcs, forward_dot : ForwardDots, distance : Distances]
NearInputs ==
  {<<>>} \cup {<<a>> : a \in NpcSamples}
         \cup {<<a, b>> : a \in NpcSamples, b \in NpcSamples} 

ClosestOutcomes ==
  {ClosestNpc(npcs, NoNpc, F32_MAX) :
     npcs \in {n \in NearInputs : Len(n) < 2 \/ n[1].entity # n[2].entity}}

\* closest_npc as the loop leaves it: computed from npc_query where the NPCs
\* near the player are tracked, any outcome of the loop otherwise
TriggerOutcomes ==
  IF npc_query.tracked THEN {ClosestNpc(npc_query.npcs, NoNpc, F32_MAX)}
  ELSE ClosestOutcomes

\* StartDialogue spawning the ActiveDialogue and leaving the state as it is
StartDialogueNoState(closest_npc) ==
  IF closest_npc # NoNpc /\ NpcDialogueId(closest_npc) \in DOMAIN dialogue_db
  THEN [commands |-> <<SpawnActiveDialogue(closest_npc,
                         dialogue_db[NpcDialogueId(closest_npc)].root_node)>>,
        next_state |-> "Unchanged"]
  ELSE Nothing

\* StartDialogue starting at the target of the root's first option
StartDialogueAtFirstReply(closest_npc) ==
  IF closest_npc # NoNpc /\ NpcDialogueId(closest_npc) \in DOMAIN dialogue_db
  THEN LET tree == dialogue_db[NpcDialogueId(closest_npc)] IN
       [commands |-> <<SpawnActiveDialogue(closest_npc,
                         tree.nodes[tree.root_node][1].target_node)>>,
        next_state |-> "InDialogue"]
  ELSE Nothing

\* StartDialogue starting at "start" without looking the tree up
StartDialogueWithoutTree(closest_npc) ==
  IF closest_npc # NoNpc
  THEN [commands |-> <<SpawnActiveDialogue(closest_npc, "start")>>,
        next_state |-> "InDialogue"]
  ELSE Nothing

\* player_interaction after the loop: start the dialogue with closest_npc
StartDialogue(closest_npc) ==
  IF closest_npc # NoNpc /\ NpcDialogueId(closest_npc) \in DOMAIN dialogue_db
  THEN [commands |-> <<SpawnActiveDialogue(closest_npc,
                         dialogue_db[NpcDialogueId(closest_npc)].root_node)>>,
        next_state |-> "InDialogue"]
  ELSE Nothing

\* player_interaction reading whether KeyE is held instead of just pressed
player_interaction_while_held(closest_npc) ==
  IF "KeyE" \in keyboard.pressed THEN StartDialogue(closest_npc) ELSE Nothing

player_interaction(closest_npc) ==
  IF "KeyE" \in keyboard.just_pressed THEN StartDialogue(closest_npc) ELSE Nothing

\* ReplyClick redrawing the target node and leaving the ActiveDialogue as it is
ReplyClickKeepNode(button, ad, acc) ==
  LET redraw == acc.commands
                  \o [i \in 1..Cardinality(dialogue_ui) |->
                        Despawn(SetToSeq(dialogue_ui)[i].entity)]
      found == /\ ad.npc_entity \in Npcs
               /\ NpcDialogueId(ad.npc_entity) \in DOMAIN dialogue_db
               /\ button.target_node \in DOMAIN dialogue_db[NpcDialogueId(ad.npc_entity)].nodes
      node == dialogue_db[NpcDialogueId(ad.npc_entity)].nodes[button.target_node]
  IN [returned |-> ~found,
      commands |-> IF found THEN Append(redraw, SpawnDialogueUI(OptionButtons(node)))
                   ELSE redraw,
      next_state |-> acc.next_state]

\* ReplyClick moving the ActiveDialogue and drawing again the node it left
ReplyClickStaleNode(button, ad, acc) ==
  LET redraw == acc.commands
                  \o <<InsertActiveDialogue(ad.entity, ad.npc_entity, button.target_node)>>
                  \o [i \in 1..Cardinality(dialogue_ui) |->
                        Despawn(SetToSeq(dialogue_ui)[i].entity)]
      found == /\ ad.npc_entity \in Npcs
               /\ NpcDialogueId(ad.npc_entity) \in DOMAIN dialogue_db
               /\ button.target_node \in DOMAIN dialogue_db[NpcDialogueId(ad.npc_entity)].nodes
      node == dialogue_db[NpcDialogueId(ad.npc_entity)].nodes[ad.current_node]
  IN [returned |-> ~found,
      commands |-> IF found THEN Append(redraw, SpawnDialogueUI(OptionButtons(node)))
                   ELSE redraw,
      next_state |-> acc.next_state]

\* handle_dialogue_click, the branch of a pressed button that is not "exit"
\* ReplyClick replacing the ActiveDialogue entity by a newly spawned one
ReplyClickRespawn(button, ad, acc) ==
  LET redraw == acc.commands
                  \o <<Despawn(ad.entity),
                       SpawnActiveDialogue(ad.npc_entity, button.target_node)>>
                  \o [i \in 1..Cardinality(dialogue_ui) |->
                        Despawn(SetToSeq(dialogue_ui)[i].entity)]
      found == /\ ad.npc_entity \in Npcs
               /\ NpcDialogueId(ad.npc_entity) \in DOMAIN dialogue_db
               /\ button.target_node \in DOMAIN dialogue_db[NpcDialogueId(ad.npc_entity)].nodes
      node == dialogue_db[NpcDialogueId(ad.npc_entity)].nodes[button.target_node]
  IN [returned |-> ~found,
      commands |-> IF found THEN Append(redraw, SpawnDialogueUI(OptionButtons(node)))
                   ELSE redraw,
      next_state |-> acc.next_state]

ReplyClick(button, ad, acc) ==
  LET redraw == acc.commands
                  \o <<InsertActiveDialogue(ad.entity, ad.npc_entity, button.target_node)>>
                  \o [i \in 1..Cardinality(dialogue_ui) |->
                        Despawn(SetToSeq(dialogue_ui)[i].entity)]
      found == /\ ad.npc_entity \in Npcs
               /\ NpcDialogueId(ad.npc_entity) \in DOMAIN dialogue_db
               /\ button.target_node \in DOMAIN dialogue_db[NpcDialogueId(ad.npc_entity)].nodes
      node == dialogue_db[NpcDialogueId(ad.npc_entity)].nodes[button.target_node]
  IN [returned |-> ~found,
      commands |-> IF found THEN Append(redraw, SpawnDialogueUI(OptionButtons(node)))
                   ELSE redraw,
      next_state |-> acc.next_state]

\* ExitClick despawning the ActiveDialogue and leaving the state as it is
ExitClickNoState(ad, acc) ==
  [returned |-> FALSE,
   commands |-> Append(acc.commands, Despawn(ad.entity)),
   next_state |-> acc.next_state]

\* handle_dialogue_click, the branch of a pressed "exit" button
ExitClick(ad, acc) ==
  [returned |-> FALSE,
   commands |-> Append(acc.commands, Despawn(ad.entity)),
   next_state |-> "Playing"]

RECURSIVE ButtonClicks(_, _)
ButtonClicks(buttons, acc) ==
  IF buttons = <<>> \/ acc.returned THEN acc
  ELSE IF ~GetSingleOk(active_dialogue) THEN [acc EXCEPT !.returned = TRUE]
  ELSE LET ad == Single(active_dialogue) IN
       IF Head(buttons).target_node = "exit"
       THEN ButtonClicks(Tail(buttons), ExitClick(ad, acc))
       ELSE ButtonClicks(Tail(buttons), ReplyClick(Head(buttons), ad, acc))

\* handle_dialogue_click leaving the ActiveDialogue entity alive on Escape
handle_dialogue_click_keep_entity ==
  IF "Escape" \in keyboard.just_pressed /\ GetSingleOk(active_dialogue)
  THEN [returned |-> TRUE, commands |-> <<>>, next_state |-> "Playing"]
  ELSE ButtonClicks(pressed, [returned |-> FALSE, commands |-> <<>>,
                              next_state |-> "Unchanged"])

\* handle_dialogue_click looking at the pressed buttons before Escape
handle_dialogue_click_buttons_first ==
  IF pressed # <<>>
  THEN ButtonClicks(pressed, [returned |-> FALSE, commands |-> <<>>,
                              next_state |-> "Unchanged"])
  ELSE IF "Escape" \in keyboard.just_pressed /\ GetSingleOk(active_dialogue)
  THEN [returned |-> TRUE,
        commands |-> <<Despawn(Single(active_dialogue).entity)>>,
        next_state |-> "Playing"]
  ELSE [returned |-> FALSE, commands |-> <<>>, next_state |-> "Unchanged"]

\* handle_dialogue_click without the Escape check
handle_dialogue_click_no_cancel ==
  ButtonClicks(pressed, [returned |-> FALSE, commands |-> <<>>,
                         next_state |-> "Unchanged"])

handle_dialogue_click ==
  IF "Escape" \in keyboard.just_pressed /\ GetSingleOk(active_dialogue)
  THEN [returned |-> TRUE,
        commands |-> <<Despawn(Single(active_dialogue).entity)>>,
        next_state |-> "Playing"]
  ELSE ButtonClicks(pressed, [returned |-> FALSE, commands |-> <<>>,
                              next_state |-> "Unchanged"])

\* The rest of the frame after StateTransition: the fixed main loop with
\* FixedUpdate, then the Update schedule
Update ==
  /\ pc = "Update"
  /\ ~app_exit
  /\ pc' = "PreUpdate"
  /\ \E fixed_steps \in FixedSteps :
       LET pm == fixed_steps > 0 /\ PlayerMovementRunIf
       IN /\ movement' = IF pm THEN player_movement ELSE movement
          /\ ran' = (IF pm THEN {"player_movement"} ELSE {})
                      \cup (IF PlayingSystemsRunIf
                            THEN {"player_look", "toggle_cursor_grab",
                                  "update_floating_cubes", "update_npcs"}
                            ELSE {})
                      \cup (IF PlayerInteractionRunIf THEN {"player_interaction"} ELSE {})
                      \cup (IF DialogueSystemsRunIf THEN {"handle_dialogue_click"} ELSE {})
  /\ camera' = IF PlayingSystemsRunIf THEN player_look ELSE camera
  /\ cancelled' = IF /\ DialogueSystemsRunIf
                     /\ "Escape" \in keyboard.just_pressed
                     /\ GetSingleOk(active_dialogue)
                  THEN {Len(pressed)} ELSE {}
  /\ \E closest_npc \in TriggerOutcomes :
       LET tg == IF PlayingSystemsRunIf THEN toggle_cursor_grab
                 ELSE [window |-> window, exit |-> FALSE]
           pi == IF PlayerInteractionRunIf THEN player_interaction(closest_npc)
                 ELSE Nothing
           hc == IF DialogueSystemsRunIf THEN handle_dialogue_click ELSE Nothing
           w  == ApplyCommands(pi.commands \o hc.commands, World)
       IN /\ window' = tg.window
          /\ app_exit' = (tg.exit \/ w.panic)
          /\ active_dialogue' = w.ad
          /\ dialogue_ui' = w.ui
          /\ pressed' = IF DialogueSystemsRunIf THEN <<>>
                        ELSE SelectSeq(pressed, LAMBDA b : \E u \in w.ui : u.entity = b.ui)
          /\ next_state' = IF hc.next_state # "Unchanged" THEN hc.next_state
                           ELSE IF pi.next_state # "Unchanged" THEN pi.next_state
                           ELSE next_state
  /\ exit_look' = {}
  /\ UNCHANGED <<state, look, stored_camera, keyboard, content, npc_query>>

(***************************************************************************)
(* Specifications                                                          *)
(***************************************************************************)
InitTracking(c, q, t) ==
  /\ pc = "PreUpdate"
  /\ state = "Playing"
  /\ next_state = "Unchanged"
  /\ active_dialogue = {}
  /\ dialogue_ui = {}
  /\ pressed = <<>>
  /\ look = [x |-> 0, y |-> 0]
  /\ stored_camera = [x |-> 0, y |-> 0]
  /\ window = [visible |-> FALSE, grab_mode |-> "Locked"]
  /\ keyboard = [pressed |-> {}, just_pressed |-> {}]
  /\ app_exit = FALSE
  /\ ran = {}
  /\ exit_look = {}
  /\ content = c
  /\ npc_query = q
  /\ movement = [x |-> 0, y |-> 0, z |-> 0]
  /\ camera = [tracked |-> t, rotation |-> [x |-> 0, y |-> 0]]
  /\ cancelled = {}

InitAt(c, q) == InitTracking(c, q, FALSE)

InitWith(c) == InitAt(c, [tracked |-> FALSE, npcs |-> <<>>])

Init == InitWith("shipped")

Next == PreUpdate \/ StateTransition \/ Update

Spec == Init /\ [][Next]_vars

\* The same program run on static content that may be corrupted
InitCorrupt ==
  \E c \in {"shipped", "corrupted"} : InitWith(c)

SpecCorrupt == InitCorrupt /\ [][Next]_vars

\* The program with frames in which several option buttons are pressed, the
\* player standing in front of the "basic" NPC 0 at distance 3.0
InitMultiPress ==
  InitAt("shipped", [tracked |-> TRUE,
                     npcs |-> <<[entity |-> 0, forward_dot |-> 80, distance |-> 30]>>])

\* The program with the player in front of NPC 0, the camera tracked
InitFacing ==
  InitTracking("shipped",
               [tracked |-> TRUE,
                npcs |-> <<[entity |-> 0, forward_dot |-> 80, distance |-> 30]>>],
               TRUE)

SpecFacing == InitFacing /\ [][Next]_vars

\* The same with the movement keys and without mouse motion and button presses
PreUpdateMovement ==
  PreUpdateWith(KeyboardUpdatesOver(Keys \cup MovementKeys, keyboard), {<<>>}, {<<>>})

NextMovement == PreUpdateMovement \/ StateTransition \/ Update

SpecMovement == InitMultiPress /\ [][NextMovement]_vars

NextMultiPress == PreUpdateMultiPress \/ StateTransition \/ Update

SpecMultiPress == InitMultiPress /\ [][NextMultiPress]_vars

\* The interact trigger as a function of the NPCs around the player: a Playing
\* frame that is about to run Update, with KeyE just pressed or not, for every
\* iteration order of every placement of the NPCs of TriggerNpcs.
TriggerNpcs == {0, 1, 2}
TriggerSamples == [entity : TriggerNpcs, forward_dot : ForwardDots, distance : Distances]
TriggerInputs ==
  {q \in UNION {[1..n -> TriggerSamples] : n \in 0..Cardinality(TriggerNpcs)} :
     \A i, j \in 1..Len(q) : i # j => q[i].entity # q[j].entity}

InitTriggerWith(c) ==
  /\ pc = "Update"
  /\ state = "Playing"
  /\ next_state = "Unchanged"
  /\ active_dialogue = {}
  /\ dialogue_ui = {}
  /\ pressed = <<>>
  /\ look = [x |-> 0, y |-> 0]
  /\ stored_camera = [x |-> 0, y |-> 0]
  /\ window = [visible |-> FALSE, grab_mode |-> "Locked"]
  /\ \E k \in SUBSET {"KeyE"} : keyboard = [pressed |-> k, just_pressed |-> k]
  /\ app_exit = FALSE
  /\ ran = {}
  /\ exit_look = {}
  /\ content = c
  /\ \E q \in TriggerInputs : npc_query = [tracked |-> TRUE, npcs |-> q]
  /\ movement = [x |-> 0, y |-> 0, z |-> 0]
  /\ camera = [tracked |-> FALSE, rotation |-> [x |-> 0, y |-> 0]]
  /\ cancelled = {}

NextTrigger == PreUpdateNoInput \/ StateTransition \/ Update

InitTrigger == InitTriggerWith("shipped")

SpecTrigger == InitTrigger /\ [][NextTrigger]_vars

\* The trigger run on static content that lacks the tree of some NPCs
InitIncomplete == InitTriggerWith("incomplete")

SpecIncomplete == InitIncomplete /\ [][NextTrigger]_vars

(***************************************************************************)
(* Properties                                                              *)
(***************************************************************************)
Root(npc) == dialogue_db[NpcDialogueId(npc)].root_node
NodesOf(npc) == DOMAIN dialogue_db[NpcDialogueId(npc)].nodes
Locked == [visible |-> FALSE, grab_mode |-> "Locked"]
Released == [visible |-> TRUE, grab_mode |-> "None"]

\* The click loop of handle_dialogue_click processes a pressed Reply button:
\* the system runs, Escape does not pre-empt it, and the button is not "exit".
ReplySelected ==
  /\ pc = "Update"
  /\ state = "InDialogue"
  /\ "Escape" \notin keyboard.just_pressed
  /\ Len(pressed) = 1
  /\ pressed[1].target_node # "exit"

ExitSelected ==
  /\ pc = "Update"
  /\ state = "InDialogue"
  /\ "Escape" \notin keyboard.just_pressed
  /\ Len(pressed) = 1
  /\ pressed[1].target_node = "exit"

CancelPressed ==
  /\ pc = "Update"
  /\ state = "InDialogue"
  /\ "Escape" \in keyboard.just_pressed

\* C1: at most one ActiveDialogue entity exists in every reachable state,
\* whatever interact, choice-click and Escape events the frames bring.
C1_AtMostOneActiveDialogue == Cardinality(active_dialogue) <= 1

\* C1 witness: a conversation that was advanced by a select is alone.
C1_Witness ==
  /\ state = "InDialogue"
  /\ \E a \in active_dialogue : a.current_node # Root(a.npc_entity)

TargetMode == IF next_state = "Unchanged" THEN state ELSE next_state
ConsistentUpToPending ==
  /\ (active_dialogue # {}) <=> (TargetMode = "InDialogue")
  /\ next_state # "Unchanged" =>
       /\ next_state # state
       /\ pc \in {"PreUpdate", "StateTransition"}

C3_ReplyMovesToTarget ==
  [][ReplySelected =>
       /\ state' = "InDialogue"
       /\ next_state' = "Unchanged"
       /\ GetSingleOk(active_dialogue)
       /\ active_dialogue' =
            {[Single(active_dialogue) EXCEPT !.current_node = pressed[1].target_node]}]_vars

\* C3 witness: after a select the conversation is at a node that is not the
\* root and goes on.
C3_Witness ==
  /\ pc = "PreUpdate"
  /\ state = "InDialogue"
  /\ next_state = "Unchanged"
  /\ "handle_dialogue_click" \in ran
  /\ \E a \in active_dialogue : a.current_node = "place"

\* C4: a processed Exit choice despawns the ActiveDialogue and requests the
\* Playing state; the request survives to the next StateTransition, which
\* makes the state Playing.
C4_ExitTerminates ==
  [][/\ ExitSelected => (active_dialogue' = {} /\ next_state' = "Playing")
     /\ (pc = "PreUpdate" /\ next_state = "Playing") => next_state' = "Playing"
     /\ (pc = "StateTransition" /\ next_state = "Playing") =>
          (state' = "Playing" /\ active_dialogue' = {})]_vars

\* C4 witness: the Exit choice was processed, without Escape, in this frame.
C4_Witness ==
  /\ pc = "PreUpdate"
  /\ state = "InDialogue"
  /\ "Escape" \notin keyboard.just_pressed
  /\ active_dialogue = {}
  /\ next_state = "Playing"

\* C5: in every InDialogue frame an Escape press despawns the ActiveDialogue
\* and requests Playing, whatever the node and whatever button is pressed;
\* the transition that follows leaves the state Playing with no
\* ActiveDialogue and no DialogueUI entity.
C5_CancelAlwaysSucceeds ==
  [][/\ CancelPressed =>
          /\ active_dialogue # {}
          /\ active_dialogue' = {}
          /\ next_state' = "Playing"
     /\ (state = "InDialogue" /\ state' = "Playing") =>
          /\ active_dialogue' = {}
          /\ dialogue_ui' = {}
          /\ pressed' = <<>>
          /\ next_state' = "Unchanged"]_vars

\* C5 witness: Escape cancelled the conversation in this frame.
C5_Witness ==
  /\ pc = "PreUpdate"
  /\ state = "InDialogue"
  /\ "Escape" \in keyboard.just_pressed
  /\ active_dialogue = {}
  /\ next_state = "Playing"

\* C6: every step that creates an ActiveDialogue is an interact press in the
\* Playing state, creates exactly one, for an NPC, at the root node of that
\* NPC's tree, and requests InDialogue; the StateTransition that follows
\* enters InDialogue with the ActiveDialogue as created.
C6_EnterAtRoot ==
  [][/\ (active_dialogue = {} /\ active_dialogue' # {}) =>
          /\ pc = "Update"
          /\ state = "Playing"
          /\ "KeyE" \in keyboard.just_pressed
          /\ next_state' = "InDialogue"
          /\ \E a \in active_dialogue' :
               /\ active_dialogue' = {a}
               /\ a.npc_entity \in Npcs
               /\ a.current_node = Root(a.npc_entity)
     /\ (pc = "StateTransition" /\ next_state = "InDialogue") =>
          /\ state' = "InDialogue"
          /\ active_dialogue' = active_dialogue]_vars

\* C6 witness: a conversation is started after an earlier one has ended (the
\* cursor is released in the Playing state only after a conversation).
C6_Witness ==
  /\ pc = "PreUpdate"
  /\ state = "Playing"
  /\ next_state = "InDialogue"
  /\ window = Released
  /\ \E a \in active_dialogue : a.current_node = Root(a.npc_entity)

\* C7: the transition into InDialogue stores the LookInput it finds, the
\* stored value does not change while the state is InDialogue, and the
\* transition out of InDialogue leaves LookInput equal to the stored value.
C7_LookRestored ==
  [][/\ (state = "Playing" /\ state' = "InDialogue") =>
          (stored_camera' = look /\ look' = look)
     /\ (state = "InDialogue" /\ state' = "InDialogue") =>
          stored_camera' = stored_camera
     /\ (state = "InDialogue" /\ state' = "Playing") =>
          (look' = stored_camera /\ stored_camera' = stored_camera)]_vars

\* C7 witness: the conversation ended with a LookInput that mouse motion had
\* moved away from the stored one, and the stored one is back.
C7_Witness ==
  /\ state = "Playing"
  /\ exit_look # {}
  /\ exit_look # {look}
  /\ look = stored_camera
  /\ look.x # 0

\* C8 as stated: the transition out of InDialogue leaves the cursor hidden
\* and its grab mode Locked.
C8_CursorRecaptured ==
  [][(state = "InDialogue" /\ state' = "Playing") => window' = Locked]_vars

\* C9 as stated: the state is never InDialogue with an ActiveDialogue whose
\* current node is not a node of the NPC's tree.
C9_NoInvalidNode ==
  state = "InDialogue" =>
    \A a \in active_dialogue : a.current_node \in NodesOf(a.npc_entity)

\* C10: player_interaction runs only in frames whose state is Playing and
\* handle_dialogue_click only in frames whose state is InDialogue, so no
\* Update runs both.
C10_InputClassesExclusive ==
  pc = "PreUpdate" =>
    /\ "player_interaction" \in ran => state = "Playing"
    /\ "handle_dialogue_click" \in ran => state = "InDialogue"
    /\ ~({"player_interaction", "handle_dialogue_click"} \subseteq ran)

\* C10 witness: the interact key was pressed in an InDialogue frame and only
\* the dialogue systems ran.
C10_Witness ==
  /\ pc = "PreUpdate"
  /\ state = "InDialogue"
  /\ "KeyE" \in keyboard.just_pressed
  /\ ran = {"handle_dialogue_click"}
  /\ Cardinality(active_dialogue) = 1

\* C11: exactly one DialogueUI root is live while a conversation is displayed,
\* also after a frame in which several option buttons were pressed, and no
\* DialogueUI is left once the state is Playing again.
C11_OneDialogueUI ==
  /\ Cardinality(dialogue_ui) <= 1
  /\ (state = "InDialogue" /\ active_dialogue # {}) => Cardinality(dialogue_ui) = 1
  /\ state = "Playing" => dialogue_ui = {}

\* The choices of the node the ActiveDialogue a is at, and the button the UI
\* shows for the i-th of them
CurrentOptions(a) == dialogue_db[NpcDialogueId(a.npc_entity)].nodes[a.current_node]
ButtonOf(options, i) ==
  [target_node |-> IF options[i] = Exit THEN "exit" ELSE options[i].target_node,
   option_index |-> i - 1]

\* C12: while a conversation is displayed, from its start and after every
\* Reply click, the one DialogueUI shows the options of the current node of
\* the ActiveDialogue in their listed order, button i with the target of the
\* i-th option and "exit" for an Exit option, and every button press that is
\* about to be handled is a press of one of these buttons.
C12_ButtonsOfCurrentNode ==
  (state = "InDialogue" /\ active_dialogue # {}) =>
    \E a \in active_dialogue, u \in dialogue_ui :
      /\ active_dialogue = {a}
      /\ dialogue_ui = {u}
      /\ a.current_node \in NodesOf(a.npc_entity)
      /\ Len(u.buttons) = Len(CurrentOptions(a))
      /\ \A i \in 1..Len(u.buttons) : u.buttons[i] = ButtonOf(CurrentOptions(a), i)
      /\ \A k \in 1..Len(pressed) :
           /\ pressed[k].ui = u.entity
           /\ pressed[k].option_index + 1 \in 1..Len(u.buttons)
           /\ pressed[k].target_node = u.buttons[pressed[k].option_index + 1].target_node

\* C12 witness: after a Reply click moved the conversation off the root, a
\* press of a button of the redrawn UI is about to be handled.
C12_Witness ==
  /\ pc = "Update"
  /\ state = "InDialogue"
  /\ Len(pressed) = 1
  /\ \E a \in active_dialogue, u \in dialogue_ui :
       /\ a.current_node # Root(a.npc_entity)
       /\ pressed[1].ui = u.entity
       /\ Len(u.buttons) = Len(CurrentOptions(a))

\* The NPCs player_interaction iterates, and those of them in front of the
\* player (forward_dot > 0.7) and within INTERACTION_DISTANCE
Candidates == {npc_query.npcs[i] : i \in 1..Len(npc_query.npcs)}
PassingChecks ==
  {n \in Candidates : n.forward_dot > FORWARD_DOT_MIN /\ n.distance < INTERACTION_DISTANCE}

\* The frame in which KeyE was just pressed among the tracked NPCs has run its
\* Update schedule
TriggerRan ==
  /\ npc_query.tracked
  /\ "KeyE" \in keyboard.pressed
  /\ ~(pc = "Update" /\ "KeyE" \in keyboard.just_pressed)

\* C13: when some NPCs pass the cone and the radius check, the trigger starts
\* the dialogue with one of them whose distance is the minimum among those
\* that pass, for every placement and every iteration order of the NPCs.
C13_SelectsClosest ==
  (TriggerRan /\ PassingChecks # {}) =>
    \E a \in active_dialogue, n \in PassingChecks :
      /\ active_dialogue = {a}
      /\ a.npc_entity = n.entity
      /\ \A m \in PassingChecks : n.distance <= m.distance

\* C13 witness: NPCs at 4.5 and at 3.0 both pass, the farther one is iterated
\* first, and the dialogue is with the one at 3.0.
C13_Witness ==
  /\ TriggerRan
  /\ \E i, j \in 1..Len(npc_query.npcs) :
       /\ i < j
       /\ {npc_query.npcs[i], npc_query.npcs[j]} \subseteq PassingChecks
       /\ npc_query.npcs[i].distance = 45
       /\ npc_query.npcs[j].distance = 30
       /\ \E a \in active_dialogue : a.npc_entity = npc_query.npcs[j].entity

\* C14: an NPC in the cone is rejected on distance exactly when its distance
\* exceeds INTERACTION_DISTANCE: with that NPC alone, no ActiveDialogue is
\* created at distance 6, and one is created at distance exactly 5.
C14_RejectedIffBeyondRadius ==
  (/\ TriggerRan
   /\ Len(npc_query.npcs) = 1
   /\ npc_query.npcs[1].forward_dot > FORWARD_DOT_MIN) =>
    ((active_dialogue = {}) <=> (npc_query.npcs[1].distance > INTERACTION_DISTANCE))

TriggerWithoutCandidate ==
  /\ pc = "Update"
  /\ state = "Playing"
  /\ npc_query.tracked
  /\ "KeyE" \in keyboard.just_pressed
  /\ PassingChecks = {}

\* C16: an interact press with no NPC passing the cone and the radius check
\* changes nothing: the Update step creates no ActiveDialogue, requests no
\* state change and leaves the state, the stored camera, the look input, the
\* cursor and the UI as they were, and the game stays so afterwards.
C16_NoCandidateNoOp ==
  /\ []((TriggerRan /\ PassingChecks = {}) =>
         /\ state = "Playing"
         /\ next_state = "Unchanged"
         /\ active_dialogue = {}
         /\ dialogue_ui = {}
         /\ window = Locked)
  /\ [][TriggerWithoutCandidate =>
          /\ active_dialogue' = {}
          /\ UNCHANGED <<state, next_state, active_dialogue, dialogue_ui,
                         stored_camera, look, window, app_exit>>]_vars

\* C16 witness: the press was handled with an NPC in the cone beyond the
\* radius and a near NPC outside the cone, and nothing passed.
C16_Witness ==
  /\ TriggerRan
  /\ pc = "PreUpdate"
  /\ PassingChecks = {}
  /\ active_dialogue = {}
  /\ \E n, m \in Candidates :
       /\ n.forward_dot > FORWARD_DOT_MIN /\ n.distance = 60
       /\ m.forward_dot <= FORWARD_DOT_MIN /\ m.distance = 30

\* The NPCs at the least distance among those that pass both checks
ClosestPassing ==
  {n \in PassingChecks : \A m \in PassingChecks : n.distance <= m.distance}

\* C17: when the NPC the trigger selects has a dialogue_id that is not a key of
\* the DialogueDatabase, no conversation starts: no ActiveDialogue exists and
\* the state stays Playing with no transition requested.
C17_MissingTreeNoDialogue ==
  (/\ TriggerRan
   /\ ClosestPassing # {}
   /\ \A n \in ClosestPassing : NpcDialogueId(n.entity) \notin DOMAIN dialogue_db) =>
    /\ active_dialogue = {}
    /\ dialogue_ui = {}
    /\ state = "Playing"
    /\ next_state = "Unchanged"

\* C17 witness: the press was handled with the NPC whose tree is missing as
\* the nearest of two NPCs that pass, and no dialogue started.
C17_Witness ==
  /\ TriggerRan
  /\ pc = "PreUpdate"
  /\ active_dialogue = {}
  /\ \E n, m \in PassingChecks :
       /\ NpcDialogueId(n.entity) \notin DOMAIN dialogue_db
       /\ NpcDialogueId(m.entity) \in DOMAIN dialogue_db
       /\ n.distance < m.distance

\* C18: the database holds the five shipped trees, and in each of them the
\* root_node is a key of the node map and the target of every Reply option is
\* a key of the node map of the same tree.
C18_TargetsExist ==
  /\ DOMAIN dialogue_db = {dialogue_types[i] : i \in 1..Len(dialogue_types)}
  /\ Cardinality(DOMAIN dialogue_db) = 5
  /\ \A id \in DOMAIN dialogue_db :
       /\ dialogue_db[id].root_node \in DOMAIN dialogue_db[id].nodes
       /\ \A n \in DOMAIN dialogue_db[id].nodes :
            \A i \in 1..Len(dialogue_db[id].nodes[n]) :
              dialogue_db[id].nodes[n][i].kind = "Reply" =>
                dialogue_db[id].nodes[n][i].target_node \in DOMAIN dialogue_db[id].nodes

\* C18 witness: the guard conversation followed Reply targets from the root to
\* "careful" and shows that node, whose Reply leads on to "guard_who".
C18_Witness ==
  /\ state = "InDialogue"
  /\ \E a \in active_dialogue, u \in dialogue_ui :
       /\ NpcDialogueId(a.npc_entity) = "guard"
       /\ a.current_node = "careful"
       /\ u.buttons[1].target_node = "guard_who"

\* C19: every node of every shipped tree has at least one option, and one of
\* its options is an Exit.
C19_EveryNodeHasExit ==
  \A id \in DOMAIN dialogue_db :
    \A n \in DOMAIN dialogue_db[id].nodes :
      /\ Len(dialogue_db[id].nodes[n]) >= 1
      /\ \E i \in 1..Len(dialogue_db[id].nodes[n]) :
           dialogue_db[id].nodes[n][i].kind = "Exit"

\* C19 witness: the mysterious conversation shows "real", whose options are
\* one Reply and the Exit.
C19_Witness ==
  /\ state = "InDialogue"
  /\ \E a \in active_dialogue, u \in dialogue_ui :
       /\ NpcDialogueId(a.npc_entity) = "mysterious"
       /\ a.current_node = "real"
       /\ Len(u.buttons) = 2
       /\ u.buttons[2].target_node = "exit"

\* The one ActiveDialogue is with a "basic" NPC at the given node
BasicAt(node) ==
  \E a \in active_dialogue :
    /\ active_dialogue = {a}
    /\ NpcDialogueId(a.npc_entity) = "basic"
    /\ a.current_node = node

\* handle_dialogue_click is about to handle one press, of the button with the
\* given 0-based index, and no Escape
ClickOn(index) ==
  /\ pc = "Update"
  /\ state = "InDialogue"
  /\ "Escape" \notin keyboard.just_pressed
  /\ Len(pressed) = 1
  /\ pressed[1].option_index = index

\* C20: the walk of the "basic" tree. A dialogue a basic NPC enters is at
\* "start" and shows three buttons: to "who", to "place" and the exit; a click
\* on button 1 at "start" moves the ActiveDialogue to "place"; a click on
\* button 2 at "place" is the Exit: the ActiveDialogue is despawned, Playing
\* is requested and the next StateTransition makes the state Playing.
C20_BasicWalk ==
  /\ []((state = "InDialogue" /\ BasicAt("start")) =>
          \E u \in dialogue_ui :
            /\ dialogue_ui = {u}
            /\ u.buttons = <<[target_node |-> "who", option_index |-> 0],
                             [target_node |-> "place", option_index |-> 1],
                             [target_node |-> "exit", option_index |-> 2]>>)
  /\ [][/\ (active_dialogue = {} /\ active_dialogue' # {}
             /\ \E a \in active_dialogue' : NpcDialogueId(a.npc_entity) = "basic") =>
              BasicAt("start")'
        /\ (ClickOn(1) /\ BasicAt("start")) =>
              /\ BasicAt("place")'
              /\ next_state' = "Unchanged"
        /\ (ClickOn(2) /\ BasicAt("place")) =>
              /\ active_dialogue' = {}
              /\ next_state' = "Playing"
        /\ (pc = "StateTransition" /\ next_state = "Playing" /\ active_dialogue = {}) =>
              state' = "Playing"]_vars

\* C20 witness: the conversation ended by the exit click on the UI of "place"
\* of the basic tree: the ActiveDialogue is gone and Playing is requested.
C20_Witness ==
  /\ pc = "PreUpdate"
  /\ state = "InDialogue"
  /\ "Escape" \notin keyboard.just_pressed
  /\ active_dialogue = {}
  /\ next_state = "Playing"
  /\ \E u \in dialogue_ui :
       u.buttons = <<[target_node |-> "who", option_index |-> 0],
                     [target_node |-> "start", option_index |-> 1],
                     [target_node |-> "exit", option_index |-> 2]>>

\* The Update schedule is about to run in a frame in which Escape, and not
\* KeyE, was just pressed while no ActiveDialogue exists
EscapeWithoutDialogue ==
  /\ pc = "Update"
  /\ "Escape" \in keyboard.just_pressed
  /\ "KeyE" \notin keyboard.just_pressed
  /\ active_dialogue = {}

\* C21 as stated: an Escape press while no conversation is active changes
\* nothing: not the state, the ActiveDialogue, the cursor grab, nor whether
\* the application runs.
C21_Original ==
  [][EscapeWithoutDialogue =>
       UNCHANGED <<state, next_state, active_dialogue, window, app_exit>>]_vars

\* C21 as amended: an Escape press while no conversation is active happens in
\* the Playing state and leaves the state, the pending transition, the
\* ActiveDialogue, the DialogueUI, the look input and the stored camera as
\* they are, but toggle_cursor_grab acts on it: with the cursor Locked it
\* sends AppExit, otherwise it hides and locks the cursor.
C21_Amended ==
  [][EscapeWithoutDialogue =>
       /\ state = "Playing"
       /\ UNCHANGED <<state, next_state, active_dialogue, dialogue_ui, look,
                      stored_camera>>
       /\ IF window.grab_mode = "Locked"
          THEN app_exit' /\ window' = window
          ELSE ~app_exit' /\ window' = Locked]_vars

\* C21 witness: Escape was handled in Playing without a conversation, after
\* a conversation had released the cursor, and locked the cursor again.
C21_Witness ==
  /\ pc = "PreUpdate"
  /\ state = "Playing"
  /\ "Escape" \in keyboard.just_pressed
  /\ "KeyE" \notin keyboard.just_pressed
  /\ "toggle_cursor_grab" \in ran
  /\ active_dialogue = {}
  /\ ~app_exit
  /\ window = Locked

\* The systems that simulate the world and start conversations
WorldSystems == {"player_movement", "player_look", "update_npcs",
                 "update_floating_cubes", "player_interaction"}

\* C22: in a frame whose GameState is InDialogue none of player_movement,
\* player_look, update_npcs, update_floating_cubes and player_interaction
\* runs: the movement input and the camera are left as they are, and a KeyE
\* press creates no ActiveDialogue and requests no transition to InDialogue.
C22_WorldSuspended ==
  [][(pc = "Update" /\ state = "InDialogue") =>
       /\ ran' \cap WorldSystems = {}
       /\ UNCHANGED <<movement, camera>>
       /\ \A b \in active_dialogue' :
            \E a \in active_dialogue : /\ b.entity = a.entity
                                       /\ b.npc_entity = a.npc_entity
       /\ next_state' # "InDialogue"]_vars

\* C22 witness: an InDialogue frame has run with KeyE just pressed and the
\* look input moved away from the camera; the conversation is the same one
\* and the camera has not followed.
C22_Witness ==
  /\ pc = "PreUpdate"
  /\ state = "InDialogue"
  /\ "KeyE" \in keyboard.just_pressed
  /\ ran = {"handle_dialogue_click"}
  /\ GetSingleOk(active_dialogue)
  /\ camera.tracked
  /\ camera.rotation # [x |-> look.x, y |-> look.y]

\* C23: whenever the GameState is InDialogue (OnEnter(InDialogue) has run in
\* the step that entered it) the cursor is visible and its grab mode is None,
\* whatever keys are pressed during the conversation.
C23_CursorReleasedInDialogue ==
  state = "InDialogue" => window = Released

\* C23 witness: an InDialogue frame has run in which Escape was just pressed
\* at a node other than the root; the cursor is still released.
C23_Witness ==
  /\ pc = "PreUpdate"
  /\ state = "InDialogue"
  /\ "Escape" \in keyboard.just_pressed
  /\ next_state = "Playing"
  /\ cancelled # {}
  /\ window = Released
  /\ \E u \in dialogue_ui : \E i \in 1..Len(u.buttons) :
       u.buttons[i].target_node = "start"

\* C24: KeyE is edge-triggered. A key is just_pressed only in the frame in
\* which it goes down, never again while it stays held, and an ActiveDialogue
\* is created only in a Playing frame in which KeyE is just_pressed: a press
\* starts at most one conversation, and a KeyE still held when a conversation
\* ends starts none, even with an NPC in front of the player.
C24_InteractEdgeTriggered ==
  /\ [][pc = "PreUpdate" =>
          keyboard'.just_pressed \subseteq (keyboard'.pressed \ keyboard.pressed)]_vars
  /\ [][(pc = "Update" /\ "KeyE" \notin keyboard.just_pressed) =>
          /\ \A b \in active_dialogue' :
               \E a \in active_dialogue : b.entity = a.entity
          /\ next_state' # "InDialogue"]_vars
  /\ [][(active_dialogue = {} /\ active_dialogue' # {}) =>
          (pc = "Update" /\ state = "Playing" /\ "KeyE" \in keyboard.just_pressed)]_vars

\* C24 witness: after a conversation, player_interaction has run in Playing
\* with the NPC in front of the player and KeyE held but not just pressed,
\* and no conversation was started.
C24_Witness ==
  /\ pc = "PreUpdate"
  /\ state = "Playing"
  /\ npc_query.tracked
  /\ "player_interaction" \in ran
  /\ "KeyE" \in keyboard.pressed \ keyboard.just_pressed
  /\ window = Released
  /\ active_dialogue = {}
  /\ next_state = "Unchanged"

\* C25: no camera jump across a conversation. In the first Playing frame
\* after a conversation player_look gives the camera the orientation it
\* already has, the one player_look gave it in the frame of the KeyE press
\* and that it kept during the conversation.
C25_NoCameraJump ==
  [][(pc = "Update" /\ state = "Playing" /\ exit_look # {} /\ camera.tracked) =>
       camera'.rotation = camera.rotation]_vars

\* C26: the MovementInput that the first player_movement after a conversation
\* consumes holds nothing accumulated during the conversation: it moves the
\* player forward only if KeyW is held and makes it jump only if Space is
\* held in that frame.
C26_NoMovementResidue ==
  [][(pc = "Update" /\ state = "Playing" /\ exit_look # {}
        /\ "player_movement" \in ran') =>
       /\ movement.z # 0 => "KeyW" \in keyboard.pressed
       /\ movement.y # 0 => "Space" \in keyboard.pressed]_vars

\* C27: when Escape is just pressed in an InDialogue frame in which an
\* option button is pressed as well, the cancel wins: the ActiveDialogue is
\* despawned and Playing is requested, and the pressed button has no effect,
\* whether it is a Reply or the Exit button: the DialogueUI is not drawn again
\* in that step and no ActiveDialogue with another node is left.
C27_CancelBeatsClick ==
  [][(CancelPressed /\ pressed # <<>>) =>
       /\ active_dialogue' = {}
       /\ next_state' = "Playing"
       /\ dialogue_ui' = dialogue_ui
       /\ ~app_exit']_vars

\* C27 witness: the conversation was cancelled in a frame in which a Reply
\* button was pressed too; the DialogueUI shown is still the one of the node
\* that was current.
C27_Witness ==
  /\ pc = "PreUpdate"
  /\ state = "InDialogue"
  /\ cancelled = {1}
  /\ active_dialogue = {}
  /\ next_state = "Playing"
  /\ \E u \in dialogue_ui : \E i \in 1..Len(u.buttons) :
       u.buttons[i].target_node = "who"

\* C28: the Escape press that cancels a conversation never reaches
\* toggle_cursor_grab. In the frame of the press toggle_cursor_grab does not
\* run and the cursor and the application are left as they are; in the next
\* frame, the first one in Playing, that press is no longer just_pressed,
\* even if Escape is still held, and again the cursor is not locked and
\* AppExit is not sent.
C28_CancelEscapeConsumed ==
  /\ [][CancelPressed =>
          /\ "toggle_cursor_grab" \notin ran'
          /\ window' = window
          /\ app_exit' = app_exit]_vars
  /\ [][(pc = "Update" /\ cancelled # {}) =>
          /\ state = "Playing"
          /\ "Escape" \notin keyboard.just_pressed
          /\ "toggle_cursor_grab" \in ran'
          /\ window' = window
          /\ ~app_exit']_vars

\* C28 witness: the first Playing frame after a cancel, with Escape still
\* held, the cursor released as the conversation left it and the application
\* running.
C28_Witness ==
  /\ pc = "Update"
  /\ state = "Playing"
  /\ cancelled # {}
  /\ "Escape" \in keyboard.pressed
  /\ active_dialogue = {}
  /\ window = Released
  /\ ~app_exit

\* No node of any tree is named "exit" and no Reply targets "exit"
NoExitSentinelInContent ==
  \A id \in DOMAIN dialogue_db :
    LET nodes == dialogue_db[id].nodes IN
    /\ "exit" \notin DOMAIN nodes
    /\ \A n \in DOMAIN nodes : \A i \in 1..Len(nodes[n]) :
         nodes[n][i].kind = "Reply" => nodes[n][i].target_node # "exit"

\* C29: the button target "exit" never collides with the content (no node
\* is named "exit", no Reply targets "exit"), so a pressed option button ends
\* the conversation if and only if the option it was made from is an Exit.
C29_ExitIffExitOption ==
  /\ [](NoExitSentinelInContent)
  /\ [][(/\ pc = "Update"
          /\ state = "InDialogue"
          /\ "Escape" \notin keyboard.just_pressed
          /\ Len(pressed) = 1
          /\ GetSingleOk(active_dialogue)) =>
          LET option == CurrentOptions(Single(active_dialogue))
                          [pressed[1].option_index + 1]
          IN (active_dialogue' = {} /\ next_state' = "Playing")
               <=> option.kind = "Exit"]_vars

\* C29 witness: the Exit button of the merchant's "wares" node was pressed
\* without Escape and the conversation has ended.
C29_Witness ==
  /\ pc = "PreUpdate"
  /\ state = "InDialogue"
  /\ cancelled = {}
  /\ "handle_dialogue_click" \in ran
  /\ active_dialogue = {}
  /\ next_state = "Playing"
  /\ \E u \in dialogue_ui :
       /\ Len(u.buttons) = 3
       /\ u.buttons[1].target_node = "business"
       /\ u.buttons[2].target_node = "start"
       /\ u.buttons[3].target_node = "exit"

\* C30: the partner is fixed for the life of a conversation. As long as an
\* ActiveDialogue exists, every step leaves it the same entity with the same
\* npc_entity, and a step that changes its current_node is a Reply of the
\* node it leaves, taken from the tree of that NPC, after which the
\* DialogueUI shows the options that tree has for the new node.
C30_PartnerFixed ==
  [][\A a \in active_dialogue : \A b \in active_dialogue' :
       /\ b.entity = a.entity
       /\ b.npc_entity = a.npc_entity
       /\ b.current_node # a.current_node =>
            LET tree == dialogue_db[NpcDialogueId(a.npc_entity)] IN
            /\ \E i \in 1..Len(tree.nodes[a.current_node]) :
                 tree.nodes[a.current_node][i] = Reply(b.current_node)
            /\ \E u \in dialogue_ui' :
                 /\ dialogue_ui' = {u}
                 /\ u.buttons = OptionButtons(tree.nodes[b.current_node])]_vars

\* C30 witness: the conversation with NPC 3, a scientist, has gone from the
\* root through "research" and "complex" to "applications"; it is still the
\* entity that player_interaction spawned.
C30_Witness ==
  /\ pc = "PreUpdate"
  /\ state = "InDialogue"
  /\ "handle_dialogue_click" \in ran
  /\ active_dialogue = {[entity |-> 1, npc_entity |-> 3,
                         current_node |-> "applications"]}
  /\ \E u \in dialogue_ui :
       u.buttons = OptionButtons(ScientistTree.nodes["applications"])

\* C31: each of the NPC_COUNT = 12 NPCs has a dialogue_id that is a key of
\* the DialogueDatabase, each of the five dialogue types is the dialogue_id
\* of some NPC, and for no NPC does player_interaction take the branch
\* without a tree: selected as closest_npc, every NPC gets an ActiveDialogue
\* at the root of its tree and the InDialogue request.
C31_EveryNpcHasTree ==
  /\ Cardinality(Npcs) = 12
  /\ \A n \in Npcs : NpcDialogueId(n) \in DOMAIN dialogue_db
  /\ \A i \in 1..Len(dialogue_types) : \E n \in Npcs : NpcDialogueId(n) = dialogue_types[i]
  /\ Len(dialogue_types) = 5
  /\ \A n \in Npcs :
       StartDialogue(n) = [commands |-> <<SpawnActiveDialogue(n, Root(n))>>,
                           next_state |-> "InDialogue"]

\* C31 witness: player_interaction has started the conversation with NPC 4,
\* whose dialogue_id is the last of the five types.
C31_Witness ==
  /\ pc = "PreUpdate"
  /\ state = "Playing"
  /\ "player_interaction" \in ran
  /\ next_state = "InDialogue"
  /\ active_dialogue = {[entity |-> 1, npc_entity |-> 4, current_node |-> "start"]}
  /\ NpcDialogueId(4) = "mysterious"

\* The nodes of a tree reached from the nodes in seen by following the
\* targets of Reply options any number of times
RECURSIVE ReachableFrom(_, _)
ReachableFrom(tree, seen) ==
  LET step == UNION {{tree.nodes[n][i].target_node :
                        i \in {j \in 1..Len(tree.nodes[n]) :
                                 tree.nodes[n][j].kind = "Reply"}} :
                     n \in seen \cap DOMAIN tree.nodes}
  IN IF step \subseteq seen THEN seen ELSE ReachableFrom(tree, seen \cup step)

\* C32: in each of the five shipped trees every node is reached from the
\* root_node by following Reply targets.
C32_EveryNodeReachable ==
  /\ Cardinality(DOMAIN dialogue_db) = 5
  /\ \A id \in DOMAIN dialogue_db :
       ReachableFrom(dialogue_db[id], {dialogue_db[id].root_node})
         = DOMAIN dialogue_db[id].nodes

\* C32 witness: the mysterious conversation, entered at the root, has been
\* taken by six Reply selections to "wrote", a node farthest from the root,
\* whose only button is the exit.
C32_Witness ==
  /\ pc = "PreUpdate"
  /\ state = "InDialogue"
  /\ "handle_dialogue_click" \in ran
  /\ \E a \in active_dialogue, u \in dialogue_ui :
       /\ NpcDialogueId(a.npc_entity) = "mysterious"
       /\ a.current_node = "wrote"
       /\ Len(u.buttons) = 1
       /\ u.buttons[1].target_node = "exit"

\* C33: the pitch of LookInput is within [-89.9, 89.9] degrees in every
\* reachable state, and so is the pitch kept in StoredCameraState, from
\* which reset_look_input restores it when a conversation ends.
C33_PitchWithinLimit ==
  /\ -PITCH_LIMIT <= look.y /\ look.y <= PITCH_LIMIT
  /\ -PITCH_LIMIT <= stored_camera.y /\ stored_camera.y <= PITCH_LIMIT

\* C33 witness: right after the restore at the end of a conversation the
\* pitch is at the upper limit, while mouse motion during the conversation
\* had taken it to the lower limit.
C33_Witness ==
  /\ pc = "Update"
  /\ state = "Playing"
  /\ look = stored_camera
  /\ look.y = PITCH_LIMIT
  /\ \E l \in exit_look : l.y = -PITCH_LIMIT
====
